---- MODULE Spec2Model ----
(***************************************************************************)
(* Model of docs/convert_try_blocks.py: the regular-expression rewriter    *)
(* convert_try_blocks (read, re.sub, compare, conditional write) and the   *)
(* driver main (loop over test_files, report).                             *)
(*                                                                         *)
(* A text is a sequence of tokens; each token is the literal string it     *)
(* stands for, and the text is the concatenation of its tokens.  The       *)
(* tokens are " ", "\n", "try do", "rescue", "catch", "after", "end" and   *)
(* "x".  No literal of the pattern can straddle two tokens ('y' occurs     *)
(* only in "try do", 'n' only in "end", 's' only in "rescue", 'h' only in  *)
(* "catch", 'f' only in "after"), so matching on tokens is matching on     *)
(* the characters.                                                         *)
(***************************************************************************)
EXTENDS Integers, Sequences, FiniteSets, TLC

VARIABLES test_files, exists, disk, disk0, pc, idx, content, original_content,
          changed_files, stdout, returned, opened_w

vars == <<test_files, exists, disk, disk0, pc, idx, content, original_content,
          changed_files, stdout, returned, opened_w>>

\* ---- bounds of the inputs ----
MaxLines == 3
MaxIndent == 1
MaxSegs == 3
MaxFiles == 3

\* ---- the pattern's character classes and literals (line 19) ----
Whitespace == {" ", "\n"}
HandlerMarkers == {"rescue", "catch", "after"}
BlockOpen == "try do"
BlockEnd == "end"
NL == "\n"

Min(S) == CHOOSE x \in S : \A y \in S : x <= y

\* \s+ is greedy: from position i it runs to the first non-whitespace token.
RECURSIVE RunEnd(_, _)
RunEnd(t, i) == IF i <= Len(t) /\ t[i] \in Whitespace THEN RunEnd(t, i + 1) ELSE i

\* \n\s+(?:rescue|catch|after) matches at p
HandlerAt(t, p) ==
    /\ p + 1 <= Len(t)
    /\ t[p] = NL
    /\ t[p + 1] \in Whitespace
    /\ RunEnd(t, p + 1) <= Len(t)
    /\ t[RunEnd(t, p + 1)] \in HandlerMarkers

\* \n\s+end matches at q
EndAt(t, q) ==
    /\ q + 1 <= Len(t)
    /\ t[q] = NL
    /\ t[q + 1] \in Whitespace
    /\ RunEnd(t, q + 1) <= Len(t)
    /\ t[RunEnd(t, q + 1)] = BlockEnd

NoMatch == [start |-> 0]

Max(S) == CHOOSE x \in S : \A y \in S : x >= y

\* Variant of try_pattern: group 3 written greedy, (\n\s+(?:rescue|catch|after).*),
\* so that the clauses run to the last terminator.
try_pattern_greedy(t, s) ==
    IF ~(s <= Len(t) /\ t[s] \in Whitespace) THEN NoMatch
    ELSE LET r == RunEnd(t, s) IN
         IF ~(r + 1 <= Len(t) /\ t[r] = BlockOpen /\ t[r + 1] = NL) THEN NoMatch
         ELSE LET b  == r + 2
                  Qs == {q \in b..Len(t) : EndAt(t, q)}
                  Ps == {p \in b..Len(t) : HandlerAt(t, p)
                            /\ \E q \in Qs : q >= RunEnd(t, p + 1) + 1}
              IN IF Ps = {} THEN NoMatch
                 ELSE LET p == Min(Ps)
                          q == Max({q \in Qs : q >= RunEnd(t, p + 1) + 1})
                      IN [start |-> s, open |-> r, body |-> b, clauses |-> p,
                          endc |-> q, stop |-> RunEnd(t, q + 1) + 1]

\* The match of try_pattern that starts exactly at position s, or NoMatch.
\* start..open-1 is group 1, open and open+1 are "try do" and "\n",
\* body..clauses-1 is group 2 (lazy), clauses..endc-1 is group 3 (lazy),
\* endc..stop-1 is group 4.
try_pattern(t, s) ==
    IF ~(s <= Len(t) /\ t[s] \in Whitespace) THEN NoMatch
    ELSE LET r == RunEnd(t, s) IN
         IF ~(r + 1 <= Len(t) /\ t[r] = BlockOpen /\ t[r + 1] = NL) THEN NoMatch
         ELSE LET b  == r + 2
                  Qs == {q \in b..Len(t) : EndAt(t, q)}
                  Ps == {p \in b..Len(t) : HandlerAt(t, p)
                            /\ \E q \in Qs : q >= RunEnd(t, p + 1) + 1}
              IN IF Ps = {} THEN NoMatch
                 ELSE LET p == Min(Ps)
                          q == Min({q \in Qs : q >= RunEnd(t, p + 1) + 1})
                      IN [start |-> s, open |-> r, body |-> b, clauses |-> p,
                          endc |-> q, stop |-> RunEnd(t, q + 1) + 1]

Group(t, from, to) == SubSeq(t, from, to - 1)

\* Variant of replace_try_block: returns the whole match, match.group(0).
replace_try_block_group0(t, m) == Group(t, m.start, m.stop)

\* return try_body + rescue_clauses
replace_try_block(t, m) ==
    Group(t, m.body, m.clauses) \o Group(t, m.clauses, m.endc)

\* The first match at or after pos: re.sub tries the start positions from
\* left to right; only a position where \s+try do can begin is worth a try.
Candidates(t, pos) ==
    {s \in pos..Len(t) : t[s] \in Whitespace /\ RunEnd(t, s) <= Len(t)
                            /\ t[RunEnd(t, s)] = BlockOpen}
RECURSIVE NextMatch(_, _)
NextMatch(t, pos) ==
    IF Candidates(t, pos) = {} THEN NoMatch
    ELSE LET s == Min(Candidates(t, pos))
             m == try_pattern(t, s)
         IN IF m # NoMatch THEN m ELSE NextMatch(t, s + 1)

RECURSIVE re_sub(_, _)
re_sub(t, pos) ==
    LET m == NextMatch(t, pos)
    IN IF m = NoMatch THEN SubSeq(t, pos, Len(t))
       ELSE SubSeq(t, pos, m.start - 1) \o replace_try_block(t, m) \o re_sub(t, m.stop)

\* the non-overlapping matches of one pass, in order
RECURSIVE finditer(_, _)
finditer(t, pos) ==
    LET m == NextMatch(t, pos)
    IN IF m = NoMatch THEN <<>> ELSE <<m>> \o finditer(t, m.stop)

Rewrite(t) == re_sub(t, 1)

\* ---- input texts ----
Spaces(k) == [j \in 1..k |-> " "]
Line(ind, w) == Spaces(ind) \o <<w>>

RECURSIVE JoinLines(_)
JoinLines(ls) ==
    IF ls = <<>> THEN <<>>
    ELSE IF Len(ls) = 1 THEN ls[1]
    ELSE ls[1] \o <<NL>> \o JoinLines(Tail(ls))

RECURSIVE Flatten(_)
Flatten(ss) == IF ss = <<>> THEN <<>> ELSE ss[1] \o Flatten(Tail(ss))

\* every text of at most MaxLines lines, each line an indentation of at most
\* MaxIndent spaces and one word, or a blank line
Words == {"try do", "rescue", "end", "x"}
LineKinds == {Line(i, w) : i \in 0..MaxIndent, w \in Words} \cup {<<>>}
LineTexts == {JoinLines(ls) : ls \in UNION {[1..n -> LineKinds] : n \in 0..MaxLines}}

\* a block: open line at indentation i, one body line, handler line at
\* indentation j, one clause line, terminator line at indentation k
Block(i, j, k, kw) ==
    <<Line(i, "try do"), Line(i + 1, "x"), Line(j, kw), Line(i + 1, "x"), Line(k, "end")>>
SegPlain == <<Line(0, "x")>>
SegBlank == << <<>> >>
SegBlock == Block(1, 1, 1, "rescue")
SegMismatch == Block(1, 2, 1, "rescue")
SegDeepEnd ==
    <<Line(1, "try do"), Line(2, "x"), Line(1, "after"), Line(2, "x"),
      Line(2, "end"), Line(1, "end")>>
SegNested ==
    <<Line(1, "try do"), Line(2, "try do"), Line(3, "x"), Line(2, "catch"),
      Line(3, "x"), Line(2, "end"), Line(1, "rescue"), Line(2, "x"), Line(1, "end")>>
\* a handler line with a trailing space, and a second block whose open marker
\* follows the first terminator on the same line
SegFused ==
    <<Line(1, "try do"), Line(2, "x"), Line(1, "rescue") \o <<" ">>,
      Line(1, "end") \o <<"try do">>, Line(2, "x"), Line(1, "rescue"), Line(1, "end")>>
Segs == {SegPlain, SegBlank, SegBlock, SegMismatch, SegDeepEnd, SegNested, SegFused}
ShapeTexts ==
    {JoinLines(Flatten(ss)) : ss \in UNION {[1..n -> Segs] : n \in 0..MaxSegs}}

Texts == LineTexts \cup ShapeTexts

\* the contents of the files of a driver run
DriverTexts ==
    {JoinLines(SegPlain \o SegBlank), JoinLines(SegBlock \o SegBlank),
     JoinLines(SegNested \o SegBlank)}

\* ---- the program ----
Path == test_files[idx]
InLoop == pc = "loop" /\ idx <= Len(test_files)

Prefixes(t) == {SubSeq(t, 1, n) : n \in 0..(Len(t) - 1)}

InitLocals ==
    /\ pc = "loop"
    /\ idx = 1
    /\ content = <<>>
    /\ original_content = <<>>
    /\ changed_files = <<>>
    /\ stdout = <<>>
    /\ returned = <<>>
    /\ opened_w = {}
    /\ disk0 = disk

\* convert_try_blocks on one file whose content is any text
Init ==
    /\ test_files = <<1>>
    /\ exists \in [{1} -> BOOLEAN]
    /\ disk \in [{1} -> Texts]
    /\ ~exists[1] => disk[1] = <<>>
    /\ InitLocals

\* main on a list of at most MaxFiles distinct paths, named 1..n and listed
\* in ascending or in descending order of their names; each path is missing or
\* holds one of the DriverTexts
InitDriver ==
    /\ \E n \in 0..MaxFiles :
         /\ test_files \in {[k \in 1..n |-> k], [k \in 1..n |-> n + 1 - k]}
         /\ exists \in [1..n -> BOOLEAN]
         /\ disk \in [1..n -> DriverTexts \cup {<<>>}]
         /\ \A p \in 1..n : exists[p] <=> disk[p] \in DriverTexts
    /\ InitLocals

\* Variant of SkipMissing: a missing path ends the loop (break for continue).
SkipMissing_break ==
    /\ InLoop
    /\ ~exists[Path]
    /\ idx' = Len(test_files) + 1
    /\ UNCHANGED <<test_files, exists, disk, disk0, pc, content, original_content,
                   changed_files, stdout, returned, opened_w>>

\* main, line 67: os.path.exists is false, the path is skipped
SkipMissing ==
    /\ InLoop
    /\ ~exists[Path]
    /\ idx' = idx + 1
    /\ UNCHANGED <<test_files, exists, disk, disk0, pc, content, original_content,
                   changed_files, stdout, returned, opened_w>>

\* Variant of ReadAndSub: the comparison of line 35 is left out and the file
\* is always written.
ReadAndSub_noCompare ==
    /\ InLoop
    /\ exists[Path]
    /\ original_content' = disk[Path]
    /\ content' = Rewrite(disk[Path])
    /\ pc' = "open_w"
    /\ UNCHANGED <<idx, returned>>
    /\ UNCHANGED <<test_files, exists, disk, disk0, changed_files, stdout, opened_w>>

\* convert_try_blocks, lines 12-35 and 39: read, substitute, compare; an
\* unchanged text returns False to main, which moves to the next path
ReadAndSub ==
    /\ InLoop
    /\ exists[Path]
    /\ original_content' = disk[Path]
    /\ content' = Rewrite(disk[Path])
    /\ IF content' # original_content'
       THEN /\ pc' = "open_w"
            /\ UNCHANGED <<idx, returned>>
       ELSE /\ pc' = "loop"
            /\ idx' = idx + 1
            /\ returned' = Append(returned, [path |-> Path, changed |-> FALSE])
    /\ UNCHANGED <<test_files, exists, disk, disk0, changed_files, stdout, opened_w>>

\* an I/O error raised by open or read (lines 12-13) ends the run
ReadFail ==
    /\ InLoop
    /\ exists[Path]
    /\ pc' = "raised_read"
    /\ UNCHANGED <<test_files, exists, disk, disk0, idx, content, original_content,
                   changed_files, stdout, returned, opened_w>>

\* line 36: open(file_path, 'w') truncates the file
OpenForWrite ==
    /\ pc = "open_w"
    /\ disk' = [disk EXCEPT ![Path] = <<>>]
    /\ opened_w' = opened_w \cup {Path}
    /\ pc' = "write"
    /\ UNCHANGED <<test_files, exists, disk0, idx, content, original_content,
                   changed_files, stdout, returned>>

\* line 36 raises (permission denied): the file is not touched
OpenForWriteFail ==
    /\ pc = "open_w"
    /\ pc' = "raised_open"
    /\ UNCHANGED <<test_files, exists, disk, disk0, idx, content, original_content,
                   changed_files, stdout, returned, opened_w>>

\* Variant of WriteAndReturn: the tail of the content never reaches the file
\* (the buffer is not flushed).
WriteAndReturn_short ==
    /\ pc = "write"
    /\ disk' = [disk EXCEPT ![Path] = SubSeq(content, 1, Len(content) - 1)]
    /\ returned' = Append(returned, [path |-> Path, changed |-> TRUE])
    /\ changed_files' = Append(changed_files, Path)
    /\ idx' = idx + 1
    /\ pc' = "loop"
    /\ UNCHANGED <<test_files, exists, disk0, content, original_content, stdout, opened_w>>

\* lines 37-38 and main line 69: the content is written, the file closed,
\* True returned and the path appended to changed_files
WriteAndReturn ==
    /\ pc = "write"
    /\ disk' = [disk EXCEPT ![Path] = content]
    /\ returned' = Append(returned, [path |-> Path, changed |-> TRUE])
    /\ changed_files' = Append(changed_files, Path)
    /\ idx' = idx + 1
    /\ pc' = "loop"
    /\ UNCHANGED <<test_files, exists, disk0, content, original_content, stdout, opened_w>>

\* line 37 or the flush at close raises (disk full): some proper prefix of
\* the content has reached the file
WriteFail ==
    /\ pc = "write"
    /\ \E part \in Prefixes(content) : disk' = [disk EXCEPT ![Path] = part]
    /\ pc' = "raised_write"
    /\ UNCHANGED <<test_files, exists, disk0, idx, content, original_content,
                   changed_files, stdout, returned, opened_w>>

\* main, lines 71-73: the count line, then one line per changed path
PrintReport ==
    /\ pc = "loop"
    /\ idx > Len(test_files)
    /\ stdout' = <<[line |-> "Converted", n |-> Len(changed_files)]>>
                   \o [k \in 1..Len(changed_files) |-> [line |-> "  - ", path |-> changed_files[k]]]
    /\ pc' = "done"
    /\ UNCHANGED <<test_files, exists, disk, disk0, idx, content, original_content,
                   changed_files, returned, opened_w>>

Next ==
    \/ SkipMissing
    \/ ReadAndSub
    \/ ReadFail
    \/ OpenForWrite
    \/ OpenForWriteFail
    \/ WriteAndReturn
    \/ WriteFail
    \/ PrintReport

Spec == Init /\ [][Next]_vars
DriverSpec == InitDriver /\ [][Next]_vars

\* ---- vocabulary of the properties ----
Count(t, tok) == Cardinality({k \in 1..Len(t) : t[k] = tok})

TokLen(tok) ==
    CASE tok = "try do" -> 6
      [] tok = "rescue" -> 6
      [] tok = "catch"  -> 5
      [] tok = "after"  -> 5
      [] tok = "end"    -> 3
      [] OTHER          -> 1

Tokens == Whitespace \cup HandlerMarkers \cup {BlockOpen, BlockEnd, "x"}
RECURSIVE SumLen(_, _)
SumLen(t, toks) ==
    IF toks = {} THEN 0
    ELSE LET tok == CHOOSE x \in toks : TRUE
         IN TokLen(tok) * Count(t, tok) + SumLen(t, toks \ {tok})
\* the number of characters of the text
CharLen(t) == SumLen(t, Tokens)

RECURSIVE SplitLines(_)
SplitLines(t) ==
    LET I == {k \in 1..Len(t) : t[k] = NL}
    IN IF I = {} THEN <<t>>
       ELSE <<SubSeq(t, 1, Min(I) - 1)>> \o SplitLines(SubSeq(t, Min(I) + 1, Len(t)))

RECURSIVE DropLines(_, _, _)
DropLines(ls, D, k) ==
    IF k > Len(ls) THEN <<>>
    ELSE (IF k \in D THEN <<>> ELSE <<ls[k]>>) \o DropLines(ls, D, k + 1)

\* the text with the lines D deleted
WithoutLines(t, D) == JoinLines(DropLines(SplitLines(t), D, 1))

\* a line made of an indentation and the one word w
IsMarkerLine(l, w) == Len(l) >= 1 /\ l[Len(l)] = w /\ \A k \in 1..(Len(l) - 1) : l[k] = " "
IsHandlerLine(l) == \E kw \in HandlerMarkers : IsMarkerLine(l, kw)
IsPlainLine(l) == \A k \in 1..Len(l) : l[k] \in {" ", "x"}
Indent(l) == Len(l) - 1

OpenLines(ls) == {a \in 1..Len(ls) : IsMarkerLine(ls[a], "try do")}
HandlerLines(ls, a) ==
    {b \in (a + 1)..Len(ls) : IsHandlerLine(ls[b]) /\ Indent(ls[b]) = Indent(ls[a])}
EndLines(ls, a, b) ==
    {c \in (b + 1)..Len(ls) : IsMarkerLine(ls[c], "end") /\ Indent(ls[c]) = Indent(ls[a])}

\* line a opens a block: an indented open line, one or more plain body lines,
\* a handler line at the same indentation, plain clause lines, a terminator
\* line at the same indentation
HandlerOf(ls, a) == Min(HandlerLines(ls, a))
EndOf(ls, a) == Min(EndLines(ls, a, HandlerOf(ls, a)))
IsBlock(ls, a) ==
    /\ Indent(ls[a]) >= 1
    /\ HandlerLines(ls, a) # {}
    /\ EndLines(ls, a, HandlerOf(ls, a)) # {}
    /\ HandlerOf(ls, a) >= a + 2
    /\ \A k \in ((a + 1)..(HandlerOf(ls, a) - 1)) \cup ((HandlerOf(ls, a) + 1)..(EndOf(ls, a) - 1)) :
          IsPlainLine(ls[k])

\* content holds the result of re.sub on original_content
Subbed == pc \in {"open_w", "write", "raised_open"} \/ returned # <<>>
Src == SplitLines(original_content)
Matches == finditer(original_content, 1)
Last(s) == s[Len(s)]

\* position of the "end" token of a match, and the indentation of a token:
\* the number of spaces between it and the start of its line
EndTok(t, m) == RunEnd(t, m.endc + 1)
RECURSIVE IndentOf(_, _)
IndentOf(t, k) == IF k > 1 /\ t[k - 1] = " " THEN 1 + IndentOf(t, k - 1) ELSE 0
AtLineStart(t, k) == (k - IndentOf(t, k) = 1) \/ t[k - IndentOf(t, k) - 1] = NL

\* ---- shapes of input the properties speak about ----
TheOpen == CHOOSE a \in OpenLines(Src) : TRUE
FirstOpen == Min(OpenLines(Src))
SecondOpen == CHOOSE a \in OpenLines(Src) : a # FirstOpen

\* exactly one block-open marker, and it opens a well-formed block
SingleBlock ==
    /\ Count(original_content, BlockOpen) = 1
    /\ OpenLines(Src) # {}
    /\ IsBlock(Src, TheOpen)

\* two well-formed blocks, the second after the terminator of the first
TwoBlocks ==
    /\ Count(original_content, BlockOpen) = 2
    /\ Cardinality(OpenLines(Src)) = 2
    /\ IsBlock(Src, FirstOpen)
    /\ IsBlock(Src, SecondOpen)
    /\ EndOf(Src, FirstOpen) < SecondOpen

\* the one block-open marker is followed by handler lines, all of them at
\* another indentation than its own
MismatchedHandler ==
    /\ Count(original_content, BlockOpen) = 1
    /\ OpenLines(Src) # {}
    /\ HandlerLines(Src, TheOpen) = {}
    /\ \E b \in (TheOpen + 1)..Len(Src) : IsHandlerLine(Src[b])

\* an outer block whose body holds a complete inner block, deeper indented,
\* before the outer handler line
OuterHandlers == {b \in HandlerLines(Src, FirstOpen) : b > EndOf(Src, SecondOpen)}
OuterHandler == Min(OuterHandlers)
OuterEnd == Min(EndLines(Src, FirstOpen, OuterHandler))
NestedBlock ==
    /\ Count(original_content, BlockOpen) = 2
    /\ Cardinality(OpenLines(Src)) = 2
    /\ Indent(Src[FirstOpen]) >= 1
    /\ Indent(Src[SecondOpen]) > Indent(Src[FirstOpen])
    /\ IsBlock(Src, SecondOpen)
    /\ OuterHandlers # {}
    /\ EndLines(Src, FirstOpen, OuterHandler) # {}
    /\ \A k \in ((FirstOpen + 1)..(SecondOpen - 1))
                  \cup ((EndOf(Src, SecondOpen) + 1)..(OuterHandler - 1))
                  \cup ((OuterHandler + 1)..(OuterEnd - 1)) : IsPlainLine(Src[k])

\* position in the text of the last token of line a
RECURSIVE LineEndPos(_, _)
LineEndPos(ls, a) == IF a = 1 THEN Len(ls[1]) ELSE LineEndPos(ls, a - 1) + 1 + Len(ls[a])

\* no block-open marker lies inside a block matched by the pass
NonNested(t) ==
    LET ms == finditer(t, 1)
    IN \A k \in 1..Len(ms) : \A j \in (ms[k].body)..(ms[k].stop - 1) : t[j] # BlockOpen

IsSuffix(a, b) == Len(a) <= Len(b) /\ SubSeq(b, Len(b) - Len(a) + 1, Len(b)) = a

\* a[i..] can be obtained from b[j..] by deleting tokens
RECURSIVE SubsequenceFrom(_, _, _, _)
SubsequenceFrom(a, i, b, j) ==
    IF i > Len(a) THEN TRUE
    ELSE IF j > Len(b) THEN FALSE
    ELSE IF a[i] = b[j] THEN SubsequenceFrom(a, i + 1, b, j + 1)
    ELSE SubsequenceFrom(a, i, b, j + 1)
IsSubsequence(a, b) == SubsequenceFrom(a, 1, b, 1)

\* ---- properties ----

\* C1: a text with exactly one non-nested block, at the start of the text or
\* between other lines, is rewritten to the same text with exactly the
\* block-open line and the terminator line deleted.
C1_SingleBlockRewrite ==
    (Subbed /\ SingleBlock) =>
        content = WithoutLines(original_content, {TheOpen, EndOf(Src, TheOpen)})

\* C2: for a non-nested text the rewriter is idempotent: rewriting its own
\* output gives that output again (and so reports changed = false).
C2_Idempotence ==
    (Subbed /\ NonNested(original_content)) => Rewrite(content) = content

\* C3: a text without the block-open marker is returned as it is, with
\* changed = false, and its file is never opened for writing.
C3_NoOpPreservation ==
    /\ \A p \in DOMAIN disk0 :
         Count(disk0[p], BlockOpen) = 0 =>
            /\ disk[p] = disk0[p]
            /\ p \notin opened_w
            /\ \A k \in 1..Len(returned) : returned[k].path = p => ~returned[k].changed
    /\ (Subbed /\ Count(original_content, BlockOpen) = 0) =>
            /\ content = original_content
            /\ pc \notin {"open_w", "write", "raised_open", "raised_write"}
C3_Witness ==
    /\ returned # <<>>
    /\ ~Last(returned).changed
    /\ Count(original_content, BlockOpen) = 0
    /\ Count(original_content, "rescue") > 0
    /\ Count(original_content, "end") > 0
    /\ disk = disk0

\* C4: two independent blocks one after the other give two substitutions in
\* one pass, exactly the two open lines and the two terminator lines are
\* removed, and the text changed.
C4_MultiBlock ==
    (Subbed /\ TwoBlocks) =>
        /\ Len(Matches) = 2
        /\ content # original_content
        /\ content = WithoutLines(original_content,
                        {FirstOpen, EndOf(Src, FirstOpen), SecondOpen, EndOf(Src, SecondOpen)})

\* C5: when the only block-open marker is followed by a handler marker at an
\* indentation other than its own, nothing matches and the text is unchanged.
C5_IndentMismatchIdentity ==
    (Subbed /\ MismatchedHandler) => content = original_content

\* C6: every match ends at the first "end" after its handler marker that is
\* indented no deeper than the block-open marker; a deeper "end" is not the
\* terminator.
C6_TerminatorSelection ==
    Subbed =>
        \A k \in 1..Len(Matches) :
            LET t == original_content
                m == Matches[k]
                cands == {e \in (RunEnd(t, m.clauses + 1) + 1)..Len(t) :
                             /\ t[e] = BlockEnd
                             /\ AtLineStart(t, e)
                             /\ IndentOf(t, e) <= IndentOf(t, m.open)}
            IN cands # {} /\ EndTok(t, m) = Min(cands)

\* C9: with a complete inner block in the body of an outer block, the match
\* that starts at the outer open marker ends at the inner terminator: the
\* pass removes the outer open marker and the inner terminator and leaves the
\* inner open marker and the outer terminator (and all that follows the
\* inner terminator) in the output.
C9_NestedLimitation ==
    (Subbed /\ NestedBlock) =>
        /\ Len(Matches) = 1
        /\ Matches[1].open = LineEndPos(Src, FirstOpen)
        /\ EndTok(original_content, Matches[1]) = LineEndPos(Src, EndOf(Src, SecondOpen))
        /\ Count(content, BlockOpen) = 1
        /\ \E k \in 1..Len(content) :
              content[k] = BlockOpen /\ IndentOf(content, k) = Indent(Src[SecondOpen])
        /\ Count(content, BlockEnd) = Count(original_content, BlockEnd) - 1
        /\ IsSuffix(JoinLines(SubSeq(Src, EndOf(Src, SecondOpen) + 1, Len(Src))), content)
        /\ IsMarkerLine(SplitLines(content)[Len(SplitLines(content)) - (Len(Src) - OuterEnd)],
                        BlockEnd)
C9_Witness ==
    /\ returned # <<>>
    /\ Last(returned).changed
    /\ NestedBlock
    /\ FirstOpen > 1
    /\ OuterEnd < Len(Src)

\* C10: the rewriter only deletes characters: every substitution is strictly
\* shorter than its match, the output is never longer than the input, and
\* changed is true exactly when the pattern matched at least once.
C10_ChangedIffMatched ==
    /\ Subbed =>
         LET ms == Matches
         IN /\ IsSubsequence(content, original_content)
            /\ CharLen(content) <= CharLen(original_content)
            /\ (ms # <<>>) <=> (content # original_content)
            /\ ms # <<>> => CharLen(content) < CharLen(original_content)
            /\ \A k \in 1..Len(ms) :
                  CharLen(replace_try_block(original_content, ms[k]))
                    < CharLen(Group(original_content, ms[k].start, ms[k].stop))
    /\ \A k \in 1..Len(returned) :
         returned[k].changed <=> (finditer(disk0[returned[k].path], 1) # <<>>)
C10_Witness ==
    /\ returned # <<>>
    /\ Last(returned).changed
    /\ Len(Matches) >= 2

\* ---- the driver ----
Exists(p) == exists[p]
ShouldWrite(p) == exists[p] /\ Rewrite(disk0[p]) # disk0[p]
ExpectedChanged == SelectSeq(test_files, ShouldWrite)
Report(paths) ==
    <<[line |-> "Converted", n |-> Len(paths)]>>
      \o [k \in 1..Len(paths) |-> [line |-> "  - ", path |-> paths[k]]]
Range(f) == {f[k] : k \in DOMAIN f}

\* C7: a run without I/O error visits all paths in list order, writes a file
\* exactly when the path exists and its text changed, and prints the count
\* and the written paths in input order; a missing path is neither written
\* nor reported and does not stop the run.
C7_DriverReport ==
    /\ \A p \in opened_w : ShouldWrite(p)
    /\ \A p \in DOMAIN disk0 : disk[p] # disk0[p] => ShouldWrite(p)
    /\ pc = "done" =>
         LET expected == ExpectedChanged
         IN /\ idx = Len(test_files) + 1
            /\ [k \in 1..Len(returned) |-> returned[k].path] = SelectSeq(test_files, Exists)
            /\ changed_files = expected
            /\ opened_w = Range(expected)
            /\ \A p \in DOMAIN disk0 :
                  disk[p] = IF p \in Range(expected) THEN Rewrite(disk0[p]) ELSE disk0[p]
            /\ stdout = Report(expected)
C7_Witness ==
    /\ pc = "done"
    /\ Len(changed_files) = 2
    /\ changed_files[1] > changed_files[2]
    /\ \E j \in 1..Len(test_files) :
          /\ ~exists[test_files[j]]
          /\ \E k \in (j + 1)..Len(test_files) : test_files[k] \in Range(changed_files)

Whole(p) == disk[p] = disk0[p] \/ disk[p] = Rewrite(disk0[p])

\* C8 as stated: in every reachable state, the states left by an I/O failure
\* included, every file holds its full original or its full rewritten
\* content.
C8_WholeFileAtomicity == \A p \in DOMAIN disk : Whole(p)

\* C8 as amended: every file holds its full original or its full rewritten
\* content except the one file open for writing: between the open of line 36
\* and the completed write it is empty, and after a failed write it is left
\* with a proper prefix of the rewritten content.  A failed read or a failed
\* open leaves every file whole.
C8_WholeOutsideWrite ==
    /\ \A p \in DOMAIN disk : (pc \in {"write", "raised_write"} /\ p = Path) \/ Whole(p)
    /\ pc = "write" => disk[Path] = <<>>
    /\ pc = "raised_write" => disk[Path] \in Prefixes(content)
C8_Witness ==
    /\ pc = "raised_write"
    /\ disk[Path] # <<>>
    /\ \E p \in DOMAIN disk : p # Path /\ disk[p] # disk0[p] /\ disk[p] = Rewrite(disk0[p])

====
